---------------------------- MODULE Spec2Model ----------------------------
(***************************************************************************)
(* Model of node-chunks: Service, ServerAppChunk (src/unnamed/part_000),   *)
(* the RendersResponses mixin and JSONRenderer (src/renders-responses.js). *)
(*                                                                         *)
(* JavaScript values are sequences of strings whose first element is the   *)
(* result of typeof (arrays and null get a tag of their own): <<"number",  *)
(* "5">>, <<"object", "a">>, <<"undefined">>.  The object {data: x} is     *)
(* <<"object", "data">> \o x.                                              *)
(***************************************************************************)
EXTENDS Integers, Sequences, FiniteSets, TLC

VARIABLES svc, rnd, routes, call, reqs

vars == <<svc, rnd, routes, call, reqs>>

(***************************************************************************)
(* Bounds of the model.                                                    *)
(***************************************************************************)
\* largest number of keys of an endpoint table
MaxTable == 3
\* largest length of the endpoints argument of renderResponsesFor
MaxSubset == 2
\* largest number of requests sent to the server
MaxRequests == 2

(***************************************************************************)
(* JavaScript values.                                                      *)
(***************************************************************************)
Undefined == <<"undefined">>
Null == <<"null">>
Num(s) == <<"number", s>>
Str(s) == <<"string", s>>
Func(s) == <<"function", s>>
Arr(s) == <<"array", s>>
Obj(s) == <<"object", s>>

\* the HTTP server handed to the components by their caller; it exposes one
\* callable per verb of ServerVerbs
ServerObj == Obj("server")
ServerVerbs == {"get", "post"}

\* the object plain function calls get as `this` (no "use strict" in the
\* sources); it has no property _responseHeaders
GlobalThis == Obj("globalThis")

(***************************************************************************)
(* The helpers of libs/corelib-web/utils.js (`_`) the sources call.        *)
(***************************************************************************)
\* _.def: URLPath = null means "failed" to _.def(URLPath), so null is not defined
IsDef(v) == v # Undefined /\ v # Null
IsObj(v) == v[1] = "object"
IsFunc(v) == v[1] = "function"
IsNumber(v) == v[1] = "number"
IsString(v) == v[1] = "string"
\* v || d
IsFalsy(v) == v \in {Undefined, Null, Str(""), Num("0")}
OrElse(v, d) == IF IsFalsy(v) THEN d ELSE v

\* String.prototype.toLowerCase on the verbs of the endpoint catalogue
ToLowerCase(s) ==
    CASE s = "GET" -> "get"
      [] s = "Post" -> "post"
      [] OTHER -> s

\* _.hasMethod(server, name)
HasMethod(server, m) ==
    /\ server = ServerObj
    /\ IsString(m)
    /\ m[2] \in ServerVerbs

(***************************************************************************)
(* URL paths are sequences of tokens, "/" being a token of its own:        *)
(* "/api/" is <<"/", "api", "/">>.  The empty sequence is the falsy path   *)
(* (undefined or "").                                                      *)
(***************************************************************************)
RECURSIVE StripLeading(_)
StripLeading(p) ==
    IF p # <<>> /\ Head(p) = "/" THEN StripLeading(Tail(p)) ELSE p

RECURSIVE StripTrailing(_)
StripTrailing(p) ==
    IF p # <<>> /\ p[Len(p)] = "/" THEN StripTrailing(SubSeq(p, 1, Len(p) - 1)) ELSE p

\* _.joinPaths([root, sub]): one separator between the two parts
JoinPaths(root, sub) ==
    StripTrailing(root) \o <<"/">> \o StripLeading(sub)

(***************************************************************************)
(* Endpoint definitions.  A definition is what the endpoint table holds    *)
(* under a name: an object {HTTPMethod, URLSubpath}, or something that is  *)
(* not an object.                                                          *)
(***************************************************************************)
EndpointNames == {"users", "items", "orders", "patchy", "numeric", "broken"}

\* the order in which the keys of a table were inserted
NameOrder == <<"users", "items", "orders", "patchy", "numeric", "broken">>

NoDef == [obj |-> FALSE, HTTPMethod |-> Undefined, URLSubpath |-> <<>>]

EndpointCatalogue(name) ==
    CASE name = "users" ->
           [obj |-> TRUE, HTTPMethod |-> Str("GET"), URLSubpath |-> <<"/", "users">>]
      [] name = "items" ->
           [obj |-> TRUE, HTTPMethod |-> Undefined, URLSubpath |-> <<"/", "items", "/">>]
      [] name = "orders" ->
           [obj |-> TRUE, HTTPMethod |-> Str("Post"), URLSubpath |-> <<"orders">>]
      [] name = "patchy" ->
           [obj |-> TRUE, HTTPMethod |-> Str("patch"), URLSubpath |-> <<"/", "patchy">>]
      [] name = "numeric" ->
           [obj |-> TRUE, HTTPMethod |-> Num("7"), URLSubpath |-> <<"/", "numeric">>]
      [] name = "broken" -> NoDef
      [] OTHER -> NoDef


(***************************************************************************)
(* Objects.  svc is the object handed to renderResponsesFor as service,    *)
(* rnd the object renderResponsesFor is called on.  One record shape holds *)
(* the fields of every class:                                              *)
(*   pc        "none" (not constructed), "super" (a ServerAppChunk whose   *)
(*             Service constructor has returned), "ready"                  *)
(*   kind      the class, "Duck" for a plain object offered as service,    *)
(*             "Mixin" for a user class of RendersResponses                *)
(*   has       the methods the object has, of those the callers test for   *)
(*   hooks     the hooks of RendersResponses the class overrides           *)
(*   valid     _valid                                                      *)
(*   table     _endpointTable: absent, or its keys in insertion order      *)
(*   methodMap the names _endpointMethodMap maps to a function             *)
(*   renderMap the names the class maps to a render function               *)
(***************************************************************************)
NoTable == [defined |-> FALSE, keys |-> <<>>]
Table(keys) == [defined |-> TRUE, keys |-> keys]

NamedBaseMethods == {"getIName", "isValid"}
ServiceMethods ==
    NamedBaseMethods \cup {"getEndpointNames", "getEndpointDefFor", "getMethodForEndpoint"}
MixinHooks == {"getHTTPServer", "getRenderMethodForEndpoint"}

NoObject ==
    [pc |-> "none", kind |-> "none", has |-> {}, hooks |-> {}, valid |-> FALSE,
     table |-> NoTable, methodMap |-> {}, server |-> Undefined, URLPathRoot |-> <<>>,
     responseHeaders |-> Undefined, renderMap |-> {}]

ObjAt(slot) == IF slot = "svc" THEN svc ELSE rnd

SeqToSet(s) == {s[i] : i \in 1..Len(s)}

\* Service.getEndpointNames: the keys of the table, or null
GetEndpointNames(o) ==
    IF o.table.defined
    THEN [array |-> TRUE, names |-> o.table.keys]
    ELSE [array |-> FALSE, names |-> <<>>]

\* Service.getEndpointDefFor
GetEndpointDefFor(o, name) ==
    IF o.table.defined /\ name \in SeqToSet(o.table.keys)
    THEN EndpointCatalogue(name)
    ELSE NoDef

\* Service.getMethodForEndpoint
GetMethodForEndpoint(o, name) ==
    IF name \in o.methodMap THEN Func(name) ELSE Undefined

\* Service._endpointMethodMapValid
EndpointMethodMapValid(o) ==
    LET endpointNames == GetEndpointNames(o)
    IN  IF ~endpointNames.array
        THEN FALSE
        ELSE \A idx \in 1..Len(endpointNames.names) :
                IsFunc(GetMethodForEndpoint(o, endpointNames.names[idx]))

\* NamedBase.isValid, and the callers' default when the object has none
IsValid(o) == IF "isValid" \in o.has THEN o.valid ELSE TRUE

\* Service.constructor: config.endpointTable and the result of the
\* overridable _mapEndpointsToMethods
ServiceConstructor(kind, config) ==
    LET o == [NoObject EXCEPT !.kind = kind, !.has = ServiceMethods,
                              !.table = config.endpointTable,
                              !.methodMap = config.methods]
    IN  [o EXCEPT !.valid = EndpointMethodMapValid(o)]

\* JSONRenderer.constructor
JSONRendererConstructor(server, config) ==
    [NoObject EXCEPT !.pc = "ready", !.kind = "JSONRenderer", !.has = NamedBaseMethods,
                     !.hooks = MixinHooks,
                     !.valid = IsObj(server),
                     !.server = server,
                     !.responseHeaders = config.responseHeaders]

\* getHTTPServer of JSONRenderer and ServerAppChunk, and the mixin's default
GetHTTPServer(self) ==
    IF "getHTTPServer" \in self.hooks THEN self.server ELSE Null

\* getRenderMethodForEndpoint of JSONRenderer (_renderJSON for every name),
\* of ServerAppChunk (a lookup in _endpointRenderMethodMap), and the mixin's
\* default
GetRenderMethodForEndpoint(self, name) ==
    IF "getRenderMethodForEndpoint" \notin self.hooks THEN Null
    ELSE IF self.kind = "JSONRenderer" THEN Func("_renderJSON")
    ELSE IF name \in self.renderMap THEN <<"function", "render", name>>
    ELSE Undefined

(***************************************************************************)
(* Routes and handlers.  routes is what the server has been asked to       *)
(* register, in order.  A handler is the closure the server was given:     *)
(* "handlerFunc" of RendersResponses (it closes over service, self, the    *)
(* endpoint name and the two methods looked up at registration time) or    *)
(* the validated handler of ServerAppChunk (it closes over self and the    *)
(* raw handler).  Objects are closed over by reference: the slot.          *)
(***************************************************************************)
NoHandler ==
    [type |-> "none", endpointName |-> "", service |-> "", self |-> "",
     method |-> Undefined, render |-> Undefined]

NoRoute == [verb |-> "", path |-> <<>>, handler |-> NoHandler]

Failed == [status |-> "null", route |-> NoRoute]
Threw == [status |-> "threw", route |-> NoRoute]

\* RendersResponses._llRegisterEndpointHandler; status "null" is the null
\* URLPath, "threw" a TypeError
LlRegisterEndpointHandler(self, endpointName, endpointDef, servicePathRoot, handler) ==
    IF "getIName" \notin self.has THEN Threw
    ELSE
      LET method0 == OrElse(endpointDef.HTTPMethod, Str("get"))
          URLPath == JoinPaths(servicePathRoot, endpointDef.URLSubpath)
          HTTPMethod == IF IsString(method0) THEN Str(ToLowerCase(method0[2])) ELSE method0
          server == GetHTTPServer(self)
      IN  IF ~HasMethod(server, HTTPMethod)
          THEN Failed
          ELSE [status |-> "ok",
                route |-> [verb |-> HTTPMethod[2], path |-> URLPath, handler |-> handler]]

\* RendersResponses._llCreateEndpointHandlerFunc
LlCreateEndpointHandlerFunc(self, selfSlot, service, serviceSlot, endpointName) ==
    IF "getMethodForEndpoint" \notin service.has
    THEN [status |-> "threw", handler |-> NoHandler]
    ELSE
      LET endpointMethod == GetMethodForEndpoint(service, endpointName)
          endpointRenderMethod == GetRenderMethodForEndpoint(self, endpointName)
      IN  IF ~IsFunc(endpointMethod) \/ ~IsFunc(endpointRenderMethod)
          THEN [status |-> "null", handler |-> NoHandler]
          ELSE [status |-> "ok",
                handler |-> [type |-> "handlerFunc", endpointName |-> endpointName,
                             service |-> serviceSlot, self |-> selfSlot,
                             method |-> endpointMethod,
                             render |-> endpointRenderMethod]]

\* RendersResponses._llSetupRenderingFor
LlSetupRenderingFor(self, selfSlot, service, serviceSlot, endpointName, servicePathRoot) ==
    LET created == LlCreateEndpointHandlerFunc(self, selfSlot, service, serviceSlot,
                                               endpointName)
        endpointDef == GetEndpointDefFor(service, endpointName)
    IN  IF created.status = "threw" THEN Threw
        ELSE IF created.status # "ok" THEN Failed
        ELSE IF ~endpointDef.obj THEN Failed
        ELSE LlRegisterEndpointHandler(self, endpointName, endpointDef, servicePathRoot,
                                       created.handler)

\* the for loop of renderResponsesFor from index idx on: the routes it
\* registers, and whether an exception left it
RECURSIVE SetupLoop(_, _, _, _, _, _, _)
SetupLoop(self, selfSlot, service, serviceSlot, servicePathRoot, endpointNames, idx) ==
    IF idx > Len(endpointNames)
    THEN [threw |-> FALSE, added |-> <<>>]
    ELSE
      LET r == LlSetupRenderingFor(self, selfSlot, service, serviceSlot,
                                   endpointNames[idx], servicePathRoot)
          rest == SetupLoop(self, selfSlot, service, serviceSlot, servicePathRoot,
                            endpointNames, idx + 1)
      IN  IF r.status = "threw" THEN [threw |-> TRUE, added |-> <<>>]
          ELSE IF r.status = "ok"
               THEN [threw |-> rest.threw, added |-> <<r.route>> \o rest.added]
               ELSE rest

\* mutant: getEndpointDefFor is not required
REQUIRED_SERVICE_IF_Short == {"getIName", "getEndpointNames"}

\* RendersResponses.REQUIRED_SERVICE_IF.methods
REQUIRED_SERVICE_IF == {"getIName", "getEndpointNames", "getEndpointDefFor"}

\* _.interfaceAdheres(service, interface)
InterfaceAdheres(service, methods) == methods \subseteq service.has

\* mutant: one success is not enough
NoSetupSuccessOffByOne(numSetupSuccess) == numSetupSuccess <= 1

\* the test that ends renderResponsesFor and _registerEndpointHandlers
NoSetupSuccess(numSetupSuccess) == numSetupSuccess < 1

\* mutant: an empty list of endpoint names is not told from a failed one
RenderResponsesForNoEmptyCase(self, selfSlot, service, serviceSlot, servicePathRoot, endpoints) ==
    LET root == IF servicePathRoot = <<>> THEN <<"/">> ELSE servicePathRoot
        endpointNames == IF endpoints.array THEN endpoints ELSE GetEndpointNames(service)
        loop == SetupLoop(self, selfSlot, service, serviceSlot, root,
                          endpointNames.names, 1)
        none == [result |-> "false", added |-> <<>>]
    IN  IF ~InterfaceAdheres(service, REQUIRED_SERVICE_IF) THEN none
        ELSE IF ~endpointNames.array THEN none
        ELSE [result |-> IF loop.threw THEN "threw"
                         ELSE IF NoSetupSuccess(Len(loop.added)) THEN "false" ELSE "true",
              added |-> loop.added]

\* RendersResponses.renderResponsesFor(service, servicePathRoot, endpoints)
\* called on self.  endpoints is [array, names]: an array of names, or a
\* value that is not an array (undefined).  The result is "true", "false"
\* or "threw" (an exception left the call); added are the routes registered.
RenderResponsesFor(self, selfSlot, service, serviceSlot, servicePathRoot, endpoints) ==
    LET root == IF servicePathRoot = <<>> THEN <<"/">> ELSE servicePathRoot
        endpointNames == IF endpoints.array THEN endpoints ELSE GetEndpointNames(service)
        loop == SetupLoop(self, selfSlot, service, serviceSlot, root,
                          endpointNames.names, 1)
        none == [result |-> "false", added |-> <<>>]
    IN  IF ~InterfaceAdheres(service, REQUIRED_SERVICE_IF) THEN none
        ELSE IF ~endpointNames.array THEN none
        ELSE IF endpointNames.names = <<>> THEN [none EXCEPT !.result = "true"]
        ELSE IF loop.threw THEN [result |-> "threw", added |-> loop.added]
        ELSE [result |-> IF NoSetupSuccess(Len(loop.added)) THEN "false" ELSE "true",
              added |-> loop.added]

(***************************************************************************)
(* ServerAppChunk.                                                         *)
(***************************************************************************)
\* ServerAppChunk._llCreateValidatedHandlerFunc
LlCreateValidatedHandlerFunc(selfSlot, endpointName, handlerFunc) ==
    [type |-> "validated", endpointName |-> endpointName, service |-> selfSlot,
     self |-> selfSlot, method |-> handlerFunc, render |-> Undefined]

\* the body of the for loop of _registerEndpointHandlers for one endpoint
RegisterOneEndpoint(self, selfSlot, endpointName) ==
    LET endpointDef == GetEndpointDefFor(self, endpointName)
        endpointHandler == GetMethodForEndpoint(self, endpointName)
    IN  IF ~endpointDef.obj THEN Failed
        ELSE IF ~IsFunc(endpointHandler) THEN Failed
        ELSE LlRegisterEndpointHandler(
                 self, endpointName, endpointDef, self.URLPathRoot,
                 LlCreateValidatedHandlerFunc(selfSlot, endpointName, endpointHandler))

RECURSIVE RegisterLoop(_, _, _, _)
RegisterLoop(self, selfSlot, endpointNames, idx) ==
    IF idx > Len(endpointNames) THEN <<>>
    ELSE LET r == RegisterOneEndpoint(self, selfSlot, endpointNames[idx])
             rest == RegisterLoop(self, selfSlot, endpointNames, idx + 1)
         IN  IF r.status = "ok" THEN <<r.route>> \o rest ELSE rest

\* mutant: success only if every endpoint was registered
RegisterEndpointHandlersAll(self, selfSlot) ==
    LET endpointNames == GetEndpointNames(self)
        added == RegisterLoop(self, selfSlot, endpointNames.names, 1)
    IN  IF ~endpointNames.array THEN [success |-> FALSE, added |-> <<>>]
        ELSE [success |-> Len(added) = Len(endpointNames.names), added |-> added]

\* ServerAppChunk._registerEndpointHandlers
RegisterEndpointHandlers(self, selfSlot) ==
    LET endpointNames == GetEndpointNames(self)
        added == RegisterLoop(self, selfSlot, endpointNames.names, 1)
    IN  IF ~endpointNames.array THEN [success |-> FALSE, added |-> <<>>]
        ELSE IF endpointNames.names = <<>> THEN [success |-> TRUE, added |-> <<>>]
        ELSE [success |-> ~NoSetupSuccess(Len(added)), added |-> added]

\* ServerAppChunk.constructor after the call of the Service constructor: o
\* is the object as the Service constructor left it, and the first thing
\* done to it is this._valid = true.  The result is the object and the
\* routes registered.
ServerAppChunkConstructor(o, selfSlot, config) ==
    LET o1 == [o EXCEPT !.valid = TRUE,
                        !.hooks = MixinHooks,
                        !.URLPathRoot = IF config.URLPathRoot = <<>> THEN <<"/">>
                                        ELSE config.URLPathRoot,
                        !.server = config.server]
        o2 == [o1 EXCEPT !.valid = IF ~IsObj(o1.server) THEN FALSE ELSE o1.valid]
        reg == RegisterEndpointHandlers(o2, selfSlot)
    IN  IF ~o2.valid
        THEN [obj |-> [o2 EXCEPT !.pc = "ready"], added |-> <<>>]
        ELSE [obj |-> [o2 EXCEPT !.pc = "ready",
                                 !.valid = IF ~reg.success THEN FALSE ELSE o2.valid,
                                 !.renderMap = config.renderMethods],
              added |-> reg.added]

(***************************************************************************)
(* Requests.  Request number id carries the objects ReqObj(id),            *)
(* ResObj(id) and NextFn(id).  The log of a request lists the calls made   *)
(* while it was handled: by the handler the server invoked ("handler") or  *)
(* by the render method ("render"); f is the function called, args its     *)
(* arguments.                                                              *)
(***************************************************************************)
ReqObj(id) == <<"object", "req", ToString(id)>>
ResObj(id) == <<"object", "res", ToString(id)>>
NextFn(id) == <<"function", "next", ToString(id)>>

\* the error object {message, code} given to next
ErrObj(code, name, endpointName) == <<"object", "error", code, name, endpointName>>

Called(by, f, args) == [by |-> by, f |-> f, args |-> args]

\* this._responseHeaders, this being an object of the model or the global
\* object
ResponseHeadersOf(this) ==
    IF this = "globalThis" THEN Undefined ELSE ObjAt(this).responseHeaders

\* the calls of _renderJSON that follow the test of err
RenderJSONBody(this, data, status) ==
    (IF IsNumber(status) THEN <<Called("render", "status", <<status>>)>> ELSE <<>>)
    \o (IF IsObj(ResponseHeadersOf(this))
        THEN <<Called("render", "set", <<ResponseHeadersOf(this)>>)>>
        ELSE <<>>)
    \o <<Called("render", "json",
                <<IF ~IsObj(data) THEN <<"object", "data">> \o data ELSE data>>)>>

\* mutant: no return after next(err)
RenderJSONNoReturn(this, id, data, err, status) ==
    (IF IsDef(err) THEN <<Called("render", "next", <<err>>)>> ELSE <<>>)
    \o RenderJSONBody(this, data, status)

\* mutant: data is never wrapped
RenderJSONNoWrap(this, id, data, err, status) ==
    IF IsDef(err)
    THEN <<Called("render", "next", <<err>>)>>
    ELSE (IF IsNumber(status) THEN <<Called("render", "status", <<status>>)>> ELSE <<>>)
         \o (IF IsObj(ResponseHeadersOf(this))
             THEN <<Called("render", "set", <<ResponseHeadersOf(this)>>)>>
             ELSE <<>>)
         \o <<Called("render", "json", <<data>>)>>

\* JSONRenderer._renderJSON(req, res, next, data, err, status) called with
\* the given this: the calls it makes
RenderJSON(this, id, data, err, status) ==
    IF IsDef(err)
    THEN <<Called("render", "next", <<err>>)>>
    ELSE RenderJSONBody(this, data, status)

\* the this of endpointRenderMethod(req, res, next, data, err) in
\* handlerFunc: the method is called as a plain function
RenderMethodThis(handler) == "globalThis"

\* a render method called with the given this: the calls it makes.  Render
\* methods other than _renderJSON are the user's and leave no further trace.
RenderCalls(handler, this, id, data, err, status) ==
    IF handler.render = Func("_renderJSON")
    THEN RenderJSON(this, id, data, err, status)
    ELSE <<>>

\* handlerFunc(req, res, next) of RendersResponses up to the call of the
\* endpoint method: the calls made, and whether the endpoint method is now
\* processing the request
HandlerFunc(handler, id) ==
    LET service == ObjAt(handler.service)
    IN  IF ~IsValid(service)
        THEN [pc |-> "done",
              log |-> <<Called("handler", "next",
                               <<ErrObj("ERR_SERVICE_INVALID", handler.service,
                                        handler.endpointName)>>)>>]
        ELSE [pc |-> "processing",
              log |-> <<Called("handler", "endpointMethod", <<ReqObj(id)>>)>>]

\* mutant: the renderer's validity is not looked at
ReadyCallbackNoCheck(handler, id, data, err) ==
    <<Called("handler", "endpointRenderMethod",
             <<ReqObj(id), ResObj(id), NextFn(id), data, err>>)>>
    \o RenderCalls(handler, RenderMethodThis(handler), id, data, err, Undefined)

\* mutant: req, res and next are kept in one place shared by all requests,
\* which holds those of the first
ReadyCallbackSharedRequest(handler, id, data, err) ==
    LET self == ObjAt(handler.self)
    IN  IF ~IsValid(self)
        THEN <<Called("handler", "next",
                      <<ErrObj("ERR_RENDERER_INVALID", handler.self,
                               handler.endpointName)>>)>>
        ELSE <<Called("handler", "endpointRenderMethod",
                      <<ReqObj(1), ResObj(1), NextFn(1), data, err>>)>>
             \o RenderCalls(handler, RenderMethodThis(handler), 1, data, err, Undefined)

\* the callback handlerFunc gave the endpoint method, called with (data, err)
ReadyCallback(handler, id, data, err) ==
    LET self == ObjAt(handler.self)
    IN  IF ~IsValid(self)
        THEN <<Called("handler", "next",
                      <<ErrObj("ERR_RENDERER_INVALID", handler.self,
                               handler.endpointName)>>)>>
        ELSE <<Called("handler", "endpointRenderMethod",
                      <<ReqObj(id), ResObj(id), NextFn(id), data, err>>)>>
             \o RenderCalls(handler, RenderMethodThis(handler), id, data, err, Undefined)

\* the function _llCreateValidatedHandlerFunc returns, called with
\* (req, res, next)
ValidatedHandlerFunc(handler, id) ==
    LET self == ObjAt(handler.self)
    IN  (IF ~IsValid(self)
         THEN <<Called("handler", "next",
                       <<ErrObj("ERR_SERVER_APP_CHUNK_INVALID", handler.self,
                                handler.endpointName)>>)>>
         ELSE <<>>)
        \o <<Called("handler", "handlerFunc", <<ReqObj(id), ResObj(id), NextFn(id)>>)>>

(***************************************************************************)
(* Inputs.                                                                 *)
(***************************************************************************)
\* the keys of a table holding the names of S, in insertion order
KeysOf(S) == SelectSeq(NameOrder, LAMBDA n : n \in S)

\* what a Service is constructed from: config.endpointTable and the map its
\* subclass returns from _mapEndpointsToMethods
ConfigsOver(names, maxKeys) ==
    {[endpointTable |-> NoTable, methods |-> {}]} \cup
    UNION {{[endpointTable |-> Table(KeysOf(S)), methods |-> M] : M \in SUBSET S} :
           S \in {T \in SUBSET names : Cardinality(T) <= maxKeys}}

AllConfigs == ConfigsOver(EndpointNames, MaxTable)
SmallConfigs == ConfigsOver({"users", "items"}, MaxTable)

\* plain objects offered as service: a Service without some of its methods
DuckMissing ==
    {{"getIName"}, {"getEndpointNames"}, {"getEndpointDefFor"},
     {"getMethodForEndpoint"}, {"isValid"}, ServiceMethods}

\* user classes of the mixin: without NamedBase, with a getIName of their
\* own or with NamedBase; overriding none, one or both hooks
Mixins ==
    {[has |-> h, hooks |-> k, renderMap |-> m] :
        h \in {{}, {"getIName"}, NamedBaseMethods},
        k \in SUBSET MixinHooks,
        m \in {EndpointNames, {"users"}}}

Headers == Obj("headers")
Servers == {ServerObj, Undefined}
\* config.server of a ServerAppChunk: an object, missing, or no object
ChunkServers == Servers \cup {Str("server")}
Roots == {<<>>, <<"/", "api", "/">>}

\* the endpoints argument: undefined, or an array of at most maxLen names
RECURSIVE SeqsUpTo(_, _)
SeqsUpTo(S, n) ==
    IF n = 0 THEN {<<>>}
    ELSE LET shorter == SeqsUpTo(S, n - 1)
         IN  shorter \cup {<<x>> \o q : x \in S, q \in {t \in shorter : Len(t) = n - 1}}

EndpointArgs(names, maxLen) ==
    {[array |-> FALSE, names |-> <<>>]} \cup
    {[array |-> TRUE, names |-> q] : q \in SeqsUpTo(names, maxLen)}

DataValues == {Num("5"), Str("ok"), Obj("a"), Arr("list"), Undefined, Null}
ErrValues == {Undefined, Null, Obj("err"), Str("boom")}
StatusValues == {Undefined, Num("201"), Str("201")}

(***************************************************************************)
(* State.                                                                  *)
(***************************************************************************)
NoCall ==
    [op |-> "none", servicePathRoot |-> <<>>,
     endpoints |-> [array |-> FALSE, names |-> <<>>],
     result |-> "", first |-> 0]

Init ==
    /\ svc = NoObject
    /\ rnd = NoObject
    /\ routes = <<>>
    /\ call = NoCall
    /\ reqs = <<>>

SetObj(slot, o) ==
    IF slot = "svc" THEN svc' = o /\ UNCHANGED rnd ELSE rnd' = o /\ UNCHANGED svc

(***************************************************************************)
(* Actions.                                                                *)
(***************************************************************************)
\* new Service(name, config), of a subclass of Service
ConstructService(configs) ==
    /\ svc.pc = "none"
    /\ \E config \in configs :
          svc' = [ServiceConstructor("Service", config) EXCEPT !.pc = "ready"]
    /\ UNCHANGED <<rnd, routes, call, reqs>>

\* a plain object to be offered as service
OfferDuck(configs) ==
    /\ svc.pc = "none"
    /\ \E config \in configs, missing \in DuckMissing :
          svc' = [ServiceConstructor("Duck", config) EXCEPT
                     !.pc = "ready", !.has = ServiceMethods \ missing]
    /\ UNCHANGED <<rnd, routes, call, reqs>>

\* new ServerAppChunk(name, config): the call of the Service constructor
ConstructChunkSuper(slot, configs) ==
    /\ ObjAt(slot).pc = "none"
    /\ \E config \in configs :
          SetObj(slot, [ServiceConstructor("ServerAppChunk", config) EXCEPT !.pc = "super"])
    /\ UNCHANGED <<routes, call, reqs>>

\* new ServerAppChunk(name, config): the rest of the constructor
ConstructChunk(slot, servers, renderMaps) ==
    /\ ObjAt(slot).pc = "super"
    /\ \E server \in servers, root \in Roots, renderMethods \in renderMaps :
          LET done == ServerAppChunkConstructor(
                          ObjAt(slot), slot,
                          [server |-> server, URLPathRoot |-> root,
                           renderMethods |-> renderMethods])
          IN  /\ SetObj(slot, done.obj)
              /\ routes' = routes \o done.added
    /\ UNCHANGED <<call, reqs>>

\* new JSONRenderer(name, server, config)
ConstructJSONRenderer ==
    /\ rnd.pc = "none"
    /\ \E server \in Servers, responseHeaders \in {Undefined, Headers} :
          rnd' = JSONRendererConstructor(server, [responseHeaders |-> responseHeaders])
    /\ UNCHANGED <<svc, routes, call, reqs>>

\* an instance of a user class of the mixin
ConstructMixin(mixins) ==
    /\ rnd.pc = "none"
    /\ \E m \in mixins :
          rnd' = [NoObject EXCEPT !.pc = "ready", !.kind = "Mixin", !.has = m.has,
                                  !.hooks = m.hooks, !.valid = TRUE,
                                  !.server = ServerObj, !.renderMap = m.renderMap]
    /\ UNCHANGED <<svc, routes, call, reqs>>

\* rnd.renderResponsesFor(svc, servicePathRoot, endpoints)
CallRenderResponsesFor(roots, args) ==
    /\ svc.pc = "ready"
    /\ rnd.pc = "ready"
    /\ call.op = "none"
    /\ \E servicePathRoot \in roots, endpoints \in args :
          LET r == RenderResponsesFor(rnd, "rnd", svc, "svc", servicePathRoot, endpoints)
          IN  /\ routes' = routes \o r.added
              /\ call' = [op |-> "renderResponsesFor",
                          servicePathRoot |-> servicePathRoot,
                          endpoints |-> endpoints,
                          result |-> r.result, first |-> Len(routes) + 1]
    /\ UNCHANGED <<svc, rnd, reqs>>

NoRequest ==
    [route |-> 0, handler |-> NoHandler, pc |-> "done", data |-> Undefined,
     err |-> Undefined, status |-> Undefined, log |-> <<>>]

\* the server receives a request for a route and invokes its handler
Request ==
    /\ Len(reqs) < MaxRequests
    /\ \E i \in 1..Len(routes) :
          LET handler == routes[i].handler
              id == Len(reqs) + 1
              h == HandlerFunc(handler, id)
          IN  reqs' = Append(reqs,
                  IF handler.type = "handlerFunc"
                  THEN [NoRequest EXCEPT !.route = i, !.handler = handler,
                                         !.pc = h.pc, !.log = h.log]
                  ELSE [NoRequest EXCEPT !.route = i, !.handler = handler,
                                         !.log = ValidatedHandlerFunc(handler, id)])
    /\ UNCHANGED <<svc, rnd, routes, call>>

\* an endpoint method calls the callback it was given
Ready(datas, errs) ==
    /\ \E id \in 1..Len(reqs), data \in datas, err \in errs :
          /\ reqs[id].pc = "processing"
          /\ reqs' = [reqs EXCEPT ![id] =
                 [@ EXCEPT !.pc = "done", !.data = data, !.err = err,
                           !.log = @ \o ReadyCallback(routes[reqs[id].route].handler,
                                                      id, data, err)]]
    /\ UNCHANGED <<svc, rnd, routes, call>>

\* rnd._renderJSON(req, res, next, data, err, status), called on a
\* JSONRenderer
DirectRender ==
    /\ rnd.pc = "ready"
    /\ rnd.kind = "JSONRenderer"
    /\ reqs = <<>>
    /\ \E data \in DataValues, err \in ErrValues, status \in StatusValues :
          reqs' = <<[NoRequest EXCEPT !.data = data, !.err = err, !.status = status,
                                      !.log = RenderJSON("rnd", 1, data, err, status)]>>
    /\ UNCHANGED <<svc, rnd, routes, call>>

\* svc._llCreateValidatedHandlerFunc(endpointName, handlerFunc)(req, res,
\* next): the function the method returns, called on a constructed
\* ServerAppChunk without going through the server
DirectValidated ==
    /\ svc.pc = "ready"
    /\ svc.kind = "ServerAppChunk"
    /\ Len(reqs) < MaxRequests
    /\ \E endpointName \in {"users"} :
          LET handler == LlCreateValidatedHandlerFunc("svc", endpointName,
                                                      Func(endpointName))
              id == Len(reqs) + 1
          IN  reqs' = Append(reqs,
                  [NoRequest EXCEPT !.handler = handler,
                                    !.log = ValidatedHandlerFunc(handler, id)])
    /\ UNCHANGED <<svc, rnd, routes, call>>

(***************************************************************************)
(* Specifications.                                                         *)
(*   Spec              the whole system on small endpoint tables           *)
(*   SpecRegistration  renderResponsesFor on every table of the catalogue  *)
(*   SpecRender        _renderJSON on every value                          *)
(*   SpecChunk         a ServerAppChunk on every table of the catalogue,   *)
(*                     its handlers invoked by the server and directly     *)
(***************************************************************************)
Next ==
    \/ ConstructService(SmallConfigs)
    \/ OfferDuck({[endpointTable |-> Table(<<"users">>), methods |-> {"users"}]})
    \/ \E slot \in {"svc", "rnd"} : ConstructChunkSuper(slot, SmallConfigs)
    \/ \E slot \in {"svc", "rnd"} : ConstructChunk(slot, Servers, {{}, {"users"}})
    \/ ConstructJSONRenderer
    \/ ConstructMixin({m \in Mixins : m.hooks = MixinHooks /\ m.renderMap = {"users"}})
    \/ CallRenderResponsesFor({<<>>}, EndpointArgs({"users"}, 1))
    \/ Request
    \/ Ready({Num("5"), Obj("a")}, {Undefined, Obj("err")})

Spec == Init /\ [][Next]_vars

NextRegistration ==
    \/ ConstructService(AllConfigs)
    \/ OfferDuck({[endpointTable |-> Table(<<"users">>), methods |-> {"users"}]})
    \/ ConstructJSONRenderer
    \/ ConstructMixin(Mixins)
    \/ CallRenderResponsesFor(Roots, EndpointArgs({"users", "patchy"}, MaxSubset))

SpecRegistration == Init /\ [][NextRegistration]_vars

NextRender ==
    \/ ConstructJSONRenderer
    \/ DirectRender

SpecRender == Init /\ [][NextRender]_vars

NextChunk ==
    \/ ConstructChunkSuper("svc", AllConfigs)
    \/ ConstructChunk("svc", ChunkServers, {{}})
    \/ Request
    \/ DirectValidated

SpecChunk == Init /\ [][NextChunk]_vars

(***************************************************************************)
(* Properties.                                                             *)
(***************************************************************************)
CallMade == call.op = "renderResponsesFor"

\* the routes registered during the call of renderResponsesFor
AddedRoutes == SubSeq(routes, call.first, Len(routes))

\* the service of the call has the three methods renderResponsesFor requires
Capable == {"getIName", "getEndpointNames", "getEndpointDefFor"} \subseteq svc.has

\* the endpoint selection of the call: the endpoints argument if it is an
\* array, else the keys of the service's table (no list if it has no table)
Selection ==
    IF call.endpoints.array THEN call.endpoints
    ELSE [array |-> svc.table.defined, names |-> svc.table.keys]

Selected == CallMade /\ Capable /\ Selection.array

\* C1: a call of renderResponsesFor whose resolved endpoint list is not
\* empty returns true if and only if at least one handler was registered
\* during the call.
C1_TrueIffRegistered ==
    (Selected /\ Selection.names # <<>>)
        => ((call.result = "true") <=> (Len(AddedRoutes) >= 1))

\* C1 witness: of two selected endpoints the first was registered and the
\* second failed; the route of the first is still there and the result is
\* true.
C1_PartialSuccess ==
    /\ Selected
    /\ Len(Selection.names) = 2
    /\ call.result = "true"
    /\ Len(AddedRoutes) = 1
    /\ AddedRoutes[1].handler.endpointName = Selection.names[1]
    /\ Selection.names[2] # Selection.names[1]

\* C2: with an empty resolved selection renderResponsesFor returns true
\* and registers no route.
C2_EmptySelectionSucceeds ==
    (Selected /\ Selection.names = <<>>)
        => (call.result = "true" /\ AddedRoutes = <<>>)

\* C2 witness: the endpoints argument is the empty array, the service
\* itself has endpoints that could have been registered.
C2_EmptyArgument ==
    /\ Selected
    /\ call.endpoints.array
    /\ call.endpoints.names = <<>>
    /\ svc.table.keys # <<>>
    /\ svc.valid
    /\ rnd.kind = "JSONRenderer"
    /\ rnd.valid
    /\ call.result = "true"
    /\ routes = <<>>

\* C3: a service without getIName, getEndpointNames or getEndpointDefFor
\* makes renderResponsesFor return false and register nothing.
C3_InterfaceRequired ==
    (CallMade /\ ~Capable)
        => (call.result = "false" /\ AddedRoutes = <<>>)

\* C3 witness: only getEndpointDefFor is missing, endpoints are given and
\* the renderer could have registered them.
C3_MissingDefFor ==
    /\ CallMade
    /\ svc.has = ServiceMethods \ {"getEndpointDefFor"}
    /\ call.endpoints.array
    /\ call.endpoints.names # <<>>
    /\ rnd.kind = "JSONRenderer"
    /\ rnd.valid
    /\ call.result = "false"
    /\ routes = <<>>

\* the HTTP verb an endpoint definition asks for
VerbOf(def) ==
    IF IsFalsy(def.HTTPMethod) THEN "get"
    ELSE IF IsString(def.HTTPMethod) THEN ToLowerCase(def.HTTPMethod[2])
    ELSE "?"

\* the four things the endpoint called name needs to be registered by the
\* call: a processing method, a render method, a definition object and a
\* verb the server exposes
HasProcessingMethod(name) ==
    "getMethodForEndpoint" \in svc.has /\ name \in svc.methodMap

HasRenderMethod(name) ==
    /\ "getRenderMethodForEndpoint" \in rnd.hooks
    /\ rnd.kind = "JSONRenderer" \/ name \in rnd.renderMap

HasDefinition(name) ==
    svc.table.defined /\ name \in SeqToSet(svc.table.keys) /\ EndpointCatalogue(name).obj

HasExposedVerb(name) ==
    /\ "getHTTPServer" \in rnd.hooks
    /\ rnd.server = ServerObj
    /\ VerbOf(EndpointCatalogue(name)) \in ServerVerbs

Registrable(name) ==
    /\ HasProcessingMethod(name)
    /\ HasRenderMethod(name)
    /\ HasDefinition(name)
    /\ HasExposedVerb(name)

\* the endpoint names of the routes the call registered, in order
AddedNames == [i \in 1..Len(AddedRoutes) |-> AddedRoutes[i].handler.endpointName]

\* C4: the call registers exactly one route for each selected endpoint that
\* has a processing method, a render method, a definition object and a verb
\* the server exposes, and none for any other selected endpoint: the names
\* of the routes registered are the selected names that have all four, one
\* route for each place of the selection.
C4_OneRoutePerSelected ==
    Selected => AddedNames = SelectSeq(Selection.names, Registrable)

\* what does hold of C4: the same, for objects that have a getIName
C4_OneRoutePerSelectedIfNamed ==
    (Selected /\ "getIName" \in rnd.has)
        => AddedNames = SelectSeq(Selection.names, Registrable)

(***************************************************************************)
(* Properties of the components and of request handling.                   *)
(***************************************************************************)
Slots == {"svc", "rnd"}

\* the endpoint method map of o has no function for some declared endpoint
MissingMethod(o) ==
    o.table.defined /\ \E name \in SeqToSet(o.table.keys) : name \notin o.methodMap

HandlerOf(id) == routes[reqs[id].route].handler

\* request id went to a handlerFunc of RendersResponses
Rendered(id) == reqs[id].route > 0 /\ HandlerOf(id).type = "handlerFunc"

\* the endpoint method of request id was invoked and has called back
Completed(id) ==
    /\ Rendered(id)
    /\ reqs[id].pc = "done"
    /\ reqs[id].log[1].f = "endpointMethod"

\* the log is one call of next with an error object of the given code
SignalsOnly(log, code) ==
    /\ Len(log) = 1
    /\ log[1].f = "next"
    /\ log[1].args[1][3] = code

\* the places of the log where f is called
CallsOf(log, f) == {i \in 1..Len(log) : log[i].f = f}

\* C5: a component whose endpoint method map lacks a function for a
\* declared endpoint is invalid after construction, and every request to a
\* handler registered for its endpoints gets next called with a
\* SERVICE_INVALID error and nothing else.
C5_MissingMethodInvalidates ==
    \A slot \in Slots :
        LET o == ObjAt(slot)
        IN  (o.pc = "ready" /\ o.kind \in {"Service", "ServerAppChunk"} /\ MissingMethod(o))
                => /\ ~o.valid
                   /\ \A id \in 1..Len(reqs) :
                         (Rendered(id) /\ HandlerOf(id).service = slot)
                             => SignalsOnly(reqs[id].log, "ERR_SERVICE_INVALID")

\* what does hold of C5: the same, for instances of Service that are no
\* ServerAppChunk
C5_ServiceMissingMethodInvalidates ==
    (svc.pc = "ready" /\ svc.kind = "Service" /\ MissingMethod(svc))
        => /\ ~svc.valid
           /\ \A id \in 1..Len(reqs) :
                 (Rendered(id) /\ HandlerOf(id).service = "svc")
                     => SignalsOnly(reqs[id].log, "ERR_SERVICE_INVALID")

\* the routes a ServerAppChunk registered for itself
SelfRoutes(slot) ==
    {i \in 1..Len(routes) :
        routes[i].handler.type = "validated" /\ routes[i].handler.self = slot}

\* C6: a ServerAppChunk whose endpoint table is absent, or one of whose
\* declared endpoints has no method, has registered no route for itself
\* and is invalid when its constructor returns.
C6_InvalidRegistrySkipsSetup ==
    \A slot \in Slots :
        LET o == ObjAt(slot)
        IN  (o.pc = "ready" /\ o.kind = "ServerAppChunk"
                /\ (~o.table.defined \/ MissingMethod(o)))
                => (~o.valid /\ SelfRoutes(slot) = {})

\* the requests made by calling _renderJSON on the renderer
Direct(id) == reqs[id].route = 0

\* C7: _renderJSON with a defined err calls next once with that err and
\* calls none of status, set and json.
C7_ErrForwarded ==
    \A id \in 1..Len(reqs) :
        (Direct(id) /\ IsDef(reqs[id].err))
            => reqs[id].log = <<Called("render", "next", <<reqs[id].err>>)>>

\* C7 witness: err is defined, and so are data, a numeric status and the
\* response headers of the renderer.
C7_ErrWithEverything ==
    /\ Len(reqs) = 1
    /\ Direct(1)
    /\ reqs[1].err = Obj("err")
    /\ reqs[1].data = Obj("a")
    /\ reqs[1].status = Num("201")
    /\ rnd.responseHeaders = Headers
    /\ Len(reqs[1].log) = 1
    /\ reqs[1].log[1].f = "next"

\* C8: _renderJSON without err calls json once, last, and never next; a
\* numeric status is applied before json; the payload is data if data is
\* an object and {data: data} if not, an object in both cases.
C8_JsonRendered ==
    \A id \in 1..Len(reqs) :
        (Direct(id) /\ ~IsDef(reqs[id].err))
            => LET r == reqs[id]
                   log == r.log
                   payload == log[Len(log)].args[1]
               IN  /\ CallsOf(log, "json") = {Len(log)}
                   /\ CallsOf(log, "next") = {}
                   /\ IsNumber(r.status)
                        => \E i \in 1..(Len(log) - 1) :
                               log[i] = Called("render", "status", <<r.status>>)
                   /\ payload = IF IsObj(r.data) THEN r.data
                                ELSE <<"object", "data">> \o r.data
                   /\ IsObj(payload)

\* C8 witness: data = 5 and status = 201 give status(201), then
\* json({data: 5}).
C8_FiveWith201 ==
    /\ Len(reqs) = 1
    /\ Direct(1)
    /\ reqs[1].data = Num("5")
    /\ reqs[1].status = Num("201")
    /\ reqs[1].log = <<Called("render", "status", <<Num("201")>>),
                       Called("render", "json", <<<<"object", "data", "number", "5">>>>)>>

\* C9: a request served by a handler that a JSONRenderer with response
\* headers registered, and whose endpoint method called back without err,
\* has set called with those headers before json.
C9_HeadersApplied ==
    (rnd.kind = "JSONRenderer" /\ IsObj(rnd.responseHeaders))
        => \A id \in 1..Len(reqs) :
              (Completed(id) /\ HandlerOf(id).self = "rnd" /\ ~IsDef(reqs[id].err))
                  => \E i, j \in 1..Len(reqs[id].log) :
                        /\ i < j
                        /\ reqs[id].log[i] = Called("render", "set", <<rnd.responseHeaders>>)
                        /\ reqs[id].log[j].f = "json"

\* C10: once the endpoint method has called back, an invalid renderer gets
\* next called once with a RENDERER_INVALID error and no render method
\* invoked; a valid one (or one without isValid) gets the render method
\* invoked with (req, res, next, data, err), and the handler does not call
\* next.
C10_RendererChecked ==
    \A id \in 1..Len(reqs) :
        Completed(id)
            => LET self == ObjAt(HandlerOf(id).self)
                   r == reqs[id]
                   after == Tail(r.log)
               IN  IF "isValid" \in self.has /\ ~self.valid
                   THEN /\ SignalsOnly(after, "ERR_RENDERER_INVALID")
                        /\ CallsOf(r.log, "endpointRenderMethod") = {}
                   ELSE /\ after # <<>>
                        /\ after[1] = Called("handler", "endpointRenderMethod",
                                             <<ReqObj(id), ResObj(id), NextFn(id),
                                               r.data, r.err>>)
                        /\ CallsOf(r.log, "endpointRenderMethod") = {2}
                        /\ \A i \in 1..Len(r.log) :
                              ~(r.log[i].by = "handler" /\ r.log[i].f = "next")

\* C10 witness: the renderer is an invalid ServerAppChunk whose handler
\* served a request of a valid service.
C10_InvalidRenderer ==
    /\ rnd.kind = "ServerAppChunk"
    /\ ~rnd.valid
    /\ svc.valid
    /\ \E id \in 1..Len(reqs) :
          /\ Completed(id)
          /\ HandlerOf(id).self = "rnd"
          /\ SignalsOnly(Tail(reqs[id].log), "ERR_RENDERER_INVALID")

(***************************************************************************)
(* Properties of the validity flag and of exceptions.                      *)
(***************************************************************************)
\* the object o is under construction or constructed and its flag is false
FlagFalse(o) == o.pc # "none" /\ ~o.valid

\* C11: the validity flag is terminal: a flag that construction has set to
\* false is false after every later step, and no step taken after the
\* constructor has returned (a call of renderResponsesFor, a request, a
\* callback) changes the flag.
C11_FlagTerminal ==
    [][/\ FlagFalse(svc) => ~svc'.valid
       /\ FlagFalse(rnd) => ~rnd'.valid
       /\ svc.pc = "ready" => svc'.valid = svc.valid
       /\ rnd.pc = "ready" => rnd'.valid = rnd.valid]_vars

\* what does hold of C11: nothing writes the flag once the constructor has
\* returned
C11_FlagUnwrittenAfterConstruction ==
    [][/\ svc.pc = "ready" => svc'.valid = svc.valid
       /\ rnd.pc = "ready" => rnd'.valid = rnd.valid]_vars

\* C12: renderResponsesFor never throws: a call with a service that has the
\* three required methods ends with the result true or false, whatever
\* else the service and the object the mixin is applied to lack.
C12_NeverThrows ==
    (CallMade /\ Capable) => call.result \in {"true", "false"}

\* what does hold of C12: the same, for a service that has
\* getMethodForEndpoint and a mixin user that has getIName
C12_NeverThrowsIfComplete ==
    (CallMade /\ Capable /\ "getMethodForEndpoint" \in svc.has /\ "getIName" \in rnd.has)
        => call.result \in {"true", "false"}

(***************************************************************************)
(* Properties of ServerAppChunk.                                           *)
(***************************************************************************)
\* the chunk o can register the endpoint called name for itself: it has a
\* definition object, a method and a verb the server exposes
ChunkRegistrable(o, name) ==
    /\ EndpointCatalogue(name).obj
    /\ name \in o.methodMap
    /\ VerbOf(EndpointCatalogue(name)) \in ServerVerbs

\* the endpoint names of the routes the chunk in slot registered for
\* itself, in order
SelfRouteNames(slot) ==
    LET own == SelectSeq(routes, LAMBDA r : r.handler.type = "validated"
                                            /\ r.handler.self = slot)
    IN  [i \in 1..Len(own) |-> own[i].handler.endpointName]

\* C13: a constructed ServerAppChunk whose config.server is no object is
\* invalid and has registered no route; with a server object and an empty
\* endpoint table it is valid and has no route; with a server object and a
\* non-empty endpoint table it has one route for each endpoint that can be
\* registered, none for the others, and is valid exactly when it has at
\* least one route.
C13_ChunkConstruction ==
    \A slot \in Slots :
        LET o == ObjAt(slot)
        IN  (o.pc = "ready" /\ o.kind = "ServerAppChunk")
                => /\ ~IsObj(o.server) => (~o.valid /\ SelfRoutes(slot) = {})
                   /\ (IsObj(o.server) /\ o.table.defined /\ o.table.keys = <<>>)
                        => (o.valid /\ SelfRoutes(slot) = {})
                   /\ (IsObj(o.server) /\ o.table.defined /\ o.table.keys # <<>>)
                        => /\ SelfRouteNames(slot)
                                = SelectSeq(o.table.keys,
                                            LAMBDA n : ChunkRegistrable(o, n))
                           /\ o.valid <=> (SelfRoutes(slot) # {})

\* C13 witness: of the three endpoints of the table one has no method and
\* one asks for a verb the server does not expose; the third is registered
\* and the chunk is valid.
C13_TwoSkippedOneRegistered ==
    /\ svc.pc = "ready"
    /\ svc.kind = "ServerAppChunk"
    /\ svc.server = ServerObj
    /\ svc.table.keys = <<"users", "items", "patchy">>
    /\ svc.methodMap = {"items", "patchy"}
    /\ SelfRouteNames("svc") = <<"items">>
    /\ svc.valid

\* request id invoked a function made by _llCreateValidatedHandlerFunc
ValidatedInvoked(id) == reqs[id].handler.type = "validated"

\* the one call of the raw endpoint handler with the request's own objects
RawCall(id) == Called("handler", "handlerFunc", <<ReqObj(id), ResObj(id), NextFn(id)>>)

\* C14: the function _llCreateValidatedHandlerFunc returns, invoked while
\* the chunk is invalid, calls next once with a SERVER_APP_CHUNK_INVALID
\* error and does not invoke the raw handler; invoked while the chunk is
\* valid it invokes the raw handler once with (req, res, next) and does not
\* call next.  Never both.
C14_GuardExclusive ==
    \A id \in 1..Len(reqs) :
        ValidatedInvoked(id)
            => IF ~ObjAt(reqs[id].handler.self).valid
               THEN SignalsOnly(reqs[id].log, "ERR_SERVER_APP_CHUNK_INVALID")
               ELSE reqs[id].log = <<RawCall(id)>>

\* what does hold of C14: a valid chunk gets the raw handler alone, an
\* invalid one gets next called once with the error, before anything else
C14_GuardSignals ==
    \A id \in 1..Len(reqs) :
        ValidatedInvoked(id)
            => IF ~ObjAt(reqs[id].handler.self).valid
               THEN /\ SignalsOnly(SubSeq(reqs[id].log, 1, 1),
                                   "ERR_SERVER_APP_CHUNK_INVALID")
                    /\ CallsOf(reqs[id].log, "next") = {1}
               ELSE reqs[id].log = <<RawCall(id)>>

(***************************************************************************)
(* Properties of interleaved requests.                                     *)
(***************************************************************************)
\* the places of the log where the handler itself passes the request on: to
\* next or to the render method
Downstream(log) ==
    {i \in 1..Len(log) :
        log[i].by = "handler" /\ log[i].f \in {"next", "endpointRenderMethod"}}

\* C15: however the requests to handlers of renderResponsesFor interleave,
\* a request whose handling has ended has exactly one downstream call by
\* the handler (next with an error object, or the render method) and one
\* that is still with its processing method has none; the processing method
\* is invoked at most once per request, with the request's own req; and the
\* render method gets req, res and next of the same request, with the data
\* and err its processing method called back with.
C15_OneDownstreamCallPerRequest ==
    \A id \in 1..Len(reqs) :
        Rendered(id)
            => LET r == reqs[id]
                   log == r.log
               IN  /\ Cardinality(Downstream(log)) = IF r.pc = "done" THEN 1 ELSE 0
                   /\ Cardinality(CallsOf(log, "endpointMethod")) <= 1
                   /\ \A i \in CallsOf(log, "endpointMethod") : log[i].args = <<ReqObj(id)>>
                   /\ \A i \in Downstream(log) :
                         IF log[i].f = "next"
                         THEN Len(log[i].args) = 1 /\ IsObj(log[i].args[1])
                         ELSE log[i].args = <<ReqObj(id), ResObj(id), NextFn(id),
                                              r.data, r.err>>

\* C15 witness: two requests to the same handler were both with their
\* processing methods; the second has been rendered with its own objects
\* while the first is still waiting.
C15_SecondOvertakesFirst ==
    /\ Len(reqs) = 2
    /\ Rendered(1)
    /\ Rendered(2)
    /\ reqs[1].route = reqs[2].route
    /\ reqs[1].pc = "processing"
    /\ reqs[2].pc = "done"
    /\ \E i \in Downstream(reqs[2].log) :
          /\ reqs[2].log[i].f = "endpointRenderMethod"
          /\ reqs[2].log[i].args[1] = ReqObj(2)

\* C16: a constructed ServerAppChunk that has a route of its own on the
\* server is valid; so every request the server gave to one of its
\* validated handlers found the chunk valid, and the handler did not signal
\* SERVER_APP_CHUNK_INVALID: it invoked the raw handler and nothing else.
C16_RoutesImplyValid ==
    /\ \A slot \in Slots :
          LET o == ObjAt(slot)
          IN  (o.pc = "ready" /\ o.kind = "ServerAppChunk" /\ SelfRoutes(slot) # {})
                  => o.valid
    /\ \A id \in 1..Len(reqs) :
          (reqs[id].route \in SelfRoutes(reqs[id].handler.self))
              => /\ ObjAt(reqs[id].handler.self).valid
                 /\ reqs[id].log = <<RawCall(id)>>

\* C16 witness: a chunk one of whose two endpoints has no method has a
\* route for the other one, and the server has invoked its handler.
C16_ServedByPartialChunk ==
    \E slot \in Slots, id \in 1..Len(reqs) :
        /\ ObjAt(slot).kind = "ServerAppChunk"
        /\ ObjAt(slot).pc = "ready"
        /\ MissingMethod(ObjAt(slot))
        /\ Cardinality(SelfRoutes(slot)) = 1
        /\ reqs[id].route \in SelfRoutes(slot)
        /\ reqs[id].handler.self = slot
        /\ reqs[id].log = <<RawCall(id)>>

=============================================================================
